---------------------------- MODULE Spec2Model ----------------------------
(***************************************************************************)
(* Model of SDMS: LaserMetaData / LaserData (SDMS/DataHandler.py) and      *)
(* FileManager (SDMS/FileManager.py).                                      *)
(*                                                                         *)
(* Python strings are sequences of one-character strings, so that strip,   *)
(* lower, replace, split, format and float() are computed character by     *)
(* character.  A pathlib.Path is the sequence of its parts.                *)
(***************************************************************************)
EXTENDS Integers, Sequences, FiniteSets, TLC

VARIABLES
    \* ---- FileManager instance + its environment
    today,              \* calendar day the UTC clock (Helper.nowUTC) is on, as a day number
    current_date,       \* self.current_date: <<>> for None, <<date>> otherwise
    current_path,       \* self.current_path (string)
    current_full_path,  \* self.current_full_path (Path)
    fs,                 \* directories that exist on disk (set of Paths)
    calls,              \* history: one record per filepath() call, in call order
    lastFile,           \* the FileHandler created last: <<>> for none, <<descriptor>> otherwise
    \* ---- LaserMetaData instance
    Programs,           \* the class attribute Programs (the catalog)
    meta,               \* the dict entries holding the twelve config fields
    CurrentProgramItem, \* the dict entry "CurrentProgram": {} when absent, {v} otherwise
    metaCall,           \* history: the last call made on the LaserMetaData
    dtCall,             \* history: the last read of the dt property and its outcome
    \* ---- LaserData instance + its environment
    now,                \* Helper.nowUTC(), in microseconds
    Data,               \* self.Data
    StartTime,          \* self.StartTime, microseconds
    EndTime,            \* self.EndTime, microseconds
    dataCall            \* history: the last call made on the LaserData and its outcome

pathVars == <<today, current_date, current_path, current_full_path, fs, calls, lastFile>>
metaVars == <<Programs, meta, CurrentProgramItem, metaCall, dtCall>>
dataVars == <<now, Data, StartTime, EndTime, dataCall>>
vars == <<pathVars, metaVars, dataVars>>

-----------------------------------------------------------------------------
(* Bounds *)
MaxCalls == 3      \* filepath() calls in one run
MaxDay == 1        \* days the clock may advance
MaxPrograms == 2   \* programs in a catalog
MaxLen == 4        \* samples in the buffer
MaxNow == 2        \* microseconds the clock may advance
MaxCode == 10      \* largest sampling-cycle code a catalog entry may carry

-----------------------------------------------------------------------------
(* Python str primitives *)

Whitespace == {" ", "\t", "\n", "\r"}

Upper == <<"A","B","C","D","E","F","G","H","I","J","K","L","M",
           "N","O","P","Q","R","S","T","U","V","W","X","Y","Z">>
Lower == <<"a","b","c","d","e","f","g","h","i","j","k","l","m",
           "n","o","p","q","r","s","t","u","v","w","x","y","z">>

\* str.lower() on one character
LowerChar(c) ==
    IF \E i \in 1..26 : Upper[i] = c
    THEN Lower[CHOOSE i \in 1..26 : Upper[i] = c]
    ELSE c

\* str.lower()
lower(s) == [i \in 1..Len(s) |-> LowerChar(s[i])]

RECURSIVE lstrip(_)
lstrip(s) == IF s # <<>> /\ Head(s) \in Whitespace THEN lstrip(Tail(s)) ELSE s

RECURSIVE rstrip(_)
rstrip(s) ==
    IF s # <<>> /\ s[Len(s)] \in Whitespace THEN rstrip(SubSeq(s, 1, Len(s) - 1)) ELSE s

\* str.strip()
strip(s) == rstrip(lstrip(s))

\* s.startswith(p)
startswith(s, p) == Len(s) >= Len(p) /\ SubSeq(s, 1, Len(p)) = p

\* str.replace(old, new): leftmost, non-overlapping occurrences
RECURSIVE replace(_, _, _)
replace(s, old, new) ==
    IF s = <<>> THEN <<>>
    ELSE IF startswith(s, old)
         THEN new \o replace(SubSeq(s, Len(old) + 1, Len(s)), old, new)
         ELSE <<Head(s)>> \o replace(Tail(s), old, new)

\* str.split(sep) for a one-character separator: empty tokens are kept
RECURSIVE split(_, _)
split(s, sep) ==
    IF \A i \in 1..Len(s) : s[i] # sep THEN <<s>>
    ELSE LET k == CHOOSE i \in 1..Len(s) : s[i] = sep /\ \A j \in 1..(i - 1) : s[j] # sep
         IN  <<SubSeq(s, 1, k - 1)>> \o split(SubSeq(s, k + 1, Len(s)), sep)

DigitChars == <<"0","1","2","3","4","5","6","7","8","9">>
IsDigit(c) == \E i \in 1..10 : DigitChars[i] = c
DigitVal(c) == (CHOOSE i \in 1..10 : DigitChars[i] = c) - 1

\* the decimal digits of n >= 0, without padding
RECURSIVE Digits(_)
Digits(n) == IF n < 10 THEN <<DigitChars[n + 1]>> ELSE Digits(n \div 10) \o <<DigitChars[(n % 10) + 1]>>

\* "{:0wd}".format(n) for n >= 0: zero-padded to at least w characters
RECURSIVE ZeroPad(_, _)
ZeroPad(s, w) == IF Len(s) >= w THEN s ELSE ZeroPad(<<"0">> \o s, w)

FormatD(n, w) == ZeroPad(Digits(n), w)

\* value of a non-empty string of decimal digits
RECURSIVE DigitsValue(_)
DigitsValue(s) == IF s = <<>> THEN 0 ELSE 10 * DigitsValue(SubSeq(s, 1, Len(s) - 1)) + DigitVal(s[Len(s)])

\* int(s) for the strings int() accepts without sign, underscore or blanks
int(s) == DigitsValue(s)

\* int(s) does not raise ValueError (signs, blanks and underscores are not modelled)
int_ok(s) == s # <<>> /\ \A i \in 1..Len(s) : IsDigit(s[i])

-----------------------------------------------------------------------------
(* FileManager *)

s_test == <<"t","e","s","t">>
s_experiment == <<"e","x","p","e","r","i","m","e","n","t">>
s_calibration == <<"c","a","l","i","b","r","a","t","i","o","n">>
s_temp == <<"t","e","m","p">>

\* FileManager.tags
tags == [k \in {s_test, s_experiment, s_calibration, s_temp} |-> k]

\* Path("/data/data/").parts
root_path == << <<"/">>, <<"d","a","t","a">>, <<"d","a","t","a">> >>

\* nowUTC().date() when the clock is on day n: days run 2024-12-30,
\* 2024-12-31, 2025-01-01, 2025-01-02, ...
DateOf(n) ==
    IF n <= 1 THEN [year |-> 2024, month |-> 12, day |-> 30 + n]
    ELSE [year |-> 2025, month |-> 1, day |-> n - 1]

\* "{:04d}/{:02d}/{:02d}".format(year, month, day)
FormatDate(d) ==
    FormatD(d.year, 4) \o <<"/">> \o FormatD(d.month, 2) \o <<"/">> \o FormatD(d.day, 2)

\* "{}/{}".format(a, b)
FormatJoin(a, b) == a \o <<"/">> \o b

\* Path / str, for a relative str
PathJoin(p, s) == p \o split(s, "/")

\* the path and all its ancestors below the filesystem root
Ancestors(p) == {SubSeq(p, 1, k) : k \in 1..Len(p)}

\* tags a caller passes to filepath()
TagInputs ==
    { s_test, s_experiment, s_calibration, s_temp,
      <<"E","x","p","e","r","i","m","e","n","t"," ">>,
      <<"b","o","g","u","s","-","t","a","g">> }

\* the date part and the tag-extended path that filepath() computes
DatePath(cur_date, cur_path, date) ==
    IF <<date>> # cur_date THEN FormatDate(date) ELSE cur_path

TagPath(tag, datepath) ==
    IF tag \in DOMAIN tags THEN FormatJoin(tags[tag], datepath)
    ELSE FormatJoin(tags[s_test], datepath)

\* mkdir(parents=True) without exist_ok: FileExistsError when the directory is there
mkdir_raises_NoExistOk(dirs, p) == p \in dirs

\* Path.mkdir(parents=True, exist_ok=True) raises FileExistsError: never for
\* a directory (only directories are on the modelled disk)
mkdir_raises(dirs, p) == FALSE

\* the directories on disk after Path.mkdir(parents=True, exist_ok=True)
mkdir(dirs, p) == dirs \cup Ancestors(p)

\* what FileManager.filepath(tag) does when the clock is on day number day
FilepathEffect(rawtag, day) ==
    /\ LET date == DateOf(day)
           tag == lower(strip(rawtag))
           path == TagPath(tag, DatePath(current_date, current_path, date))
           full == PathJoin(root_path, path)
           raised == mkdir_raises(fs, full)
       IN  /\ current_date' = <<date>>
           /\ current_path' = path
           /\ current_full_path' = full
           /\ fs' = IF raised THEN fs ELSE mkdir(fs, full)
           /\ calls' = Append(calls, [tag |-> rawtag, day |-> day, date |-> date, path |-> full,
                                      existed |-> full \in fs, raised |-> raised])

\* FileManager.filepath(tag)
filepath(rawtag) ==
    /\ Len(calls) < MaxCalls
    /\ FilepathEffect(rawtag, today)
    /\ UNCHANGED <<today, lastFile, metaVars, dataVars>>

s_data == <<"d","a","t","a">>

\* nowUTC().strftime("%Y%m%d_{}".format(filename)), for a filename without "%"
Strftime(d, filename) ==
    FormatD(d.year, 4) \o FormatD(d.month, 2) \o FormatD(d.day, 2) \o <<"_">> \o filename

\* base names a caller passes to FileHandler(): <<>> stands for None
FilenameInputs == { <<>>, <<" ","R","u","n","1">> }

\* tags a caller passes to FileHandler()
HandlerTagInputs == { s_test, <<"E","x","p","e","r","i","m","e","n","t"," ">> }

\* FileHandler.__init__(filename, tag): the file name is stamped from one
\* read of the clock, then filemanager.filepath(tag) reads the clock again;
\* the clock may cross a day boundary (cross = 1) between the two reads
FileHandler_init(fname, rawtag, cross) ==
    /\ Len(calls) < MaxCalls
    /\ today + cross <= MaxDay
    /\ LET base == IF fname # <<>> THEN lower(strip(fname)) ELSE s_data
           stamped == Strftime(DateOf(today), base)
       IN  /\ today' = today + cross
           /\ FilepathEffect(rawtag, today')
           /\ lastFile' = << [tag |-> rawtag, filename |-> stamped,
                              directory |-> current_full_path',
                              file |-> current_full_path' \o <<stamped>>] >>
    /\ UNCHANGED <<metaVars, dataVars>>

\* another process creates today's directory of the "test" tag
ExternalMkdir ==
    /\ LET target == PathJoin(root_path, FormatJoin(s_test, FormatDate(DateOf(today))))
       IN  /\ target \notin fs
           /\ fs' = fs \cup Ancestors(target)
    /\ UNCHANGED <<today, current_date, current_path, current_full_path, calls, lastFile, metaVars, dataVars>>

\* the UTC clock crosses a day boundary
NextDay ==
    /\ today < MaxDay
    /\ today' = today + 1
    /\ UNCHANGED <<current_date, current_path, current_full_path, fs, calls, lastFile, metaVars, dataVars>>


\* FileManager.__init__()
PathInit ==
    /\ today = 0
    /\ current_date = <<>>
    /\ current_path = s_temp
    /\ current_full_path = PathJoin(root_path, s_temp)
    /\ fs = Ancestors(root_path)
    /\ calls = <<>>
    /\ lastFile = <<>>

\* FileHandler's class attribute filemanager = FileManager(), used only by FileHandler()
FileNext ==
    \/ \E f \in FilenameInputs : \E t \in HandlerTagInputs : \E c \in {0, 1} : FileHandler_init(f, t, c)
    \/ NextDay

PathNext ==
    \/ \E t \in TagInputs : filepath(t)
    \/ NextDay
    \/ ExternalMkdir

-----------------------------------------------------------------------------
(* Properties of FileManager.filepath *)

\* the tag a raw tag stands for: trim + lowercase, unrecognized means "test"
KnownTag(rawtag) ==
    LET t == lower(strip(rawtag)) IN IF t \in DOMAIN tags THEN tags[t] ELSE s_test

Recognized(rawtag) == lower(strip(rawtag)) \in DOMAIN tags

\* the YYYY, MM, DD parts of a date
DateSegment(d) == <<FormatD(d.year, 4), FormatD(d.month, 2), FormatD(d.day, 2)>>

\* the last three parts of a path
LastThree(p) == SubSeq(p, Len(p) - 2, Len(p))

\* everything before the last three parts
BeforeDate(p) == SubSeq(p, 1, Len(p) - 3)

\* root / tag / YYYY / MM / DD
ExpectedPath(rawtag, d) == root_path \o <<KnownTag(rawtag)>> \o DateSegment(d)

\* C1: two filepath() calls on the same calendar date with two different
\* recognized tags return distinct paths that end in the same YYYY/MM/DD
\* segment, each with exactly one tag segment (its own) between root and date.
C1_DistinctTagsNoAccumulation ==
    \A i \in 1..Len(calls) : \A j \in 1..Len(calls) :
        ( /\ i < j
          /\ calls[i].date = calls[j].date
          /\ Recognized(calls[i].tag) /\ Recognized(calls[j].tag)
          /\ KnownTag(calls[i].tag) # KnownTag(calls[j].tag) )
        => /\ calls[i].path # calls[j].path
           /\ LastThree(calls[i].path) = DateSegment(calls[i].date)
           /\ LastThree(calls[j].path) = DateSegment(calls[j].date)
           /\ calls[i].path = ExpectedPath(calls[i].tag, calls[i].date)
           /\ calls[j].path = ExpectedPath(calls[j].tag, calls[j].date)

\* C6: two filepath() calls on the same calendar date whose tags normalize
\* to the same known tag return identical paths.
C6_SameKnownTagSamePath ==
    \A i \in 1..Len(calls) : \A j \in 1..Len(calls) :
        ( /\ calls[i].date = calls[j].date
          /\ KnownTag(calls[i].tag) = KnownTag(calls[j].tag) )
        => calls[i].path = calls[j].path

\* C7: two consecutive filepath() calls with the same tag, the first on date
\* D1 and the second on a later date D2, return paths that differ only in the
\* date segment: same root and single tag segment, date segment D1 then D2.
C7_DayBoundaryChangesOnlyDate ==
    \A i \in 1..(Len(calls) - 1) :
        ( /\ calls[i].tag = calls[i + 1].tag
          /\ calls[i].day < calls[i + 1].day )
        => /\ BeforeDate(calls[i].path) = BeforeDate(calls[i + 1].path)
           /\ BeforeDate(calls[i].path) = root_path \o <<KnownTag(calls[i].tag)>>
           /\ LastThree(calls[i].path) = DateSegment(calls[i].date)
           /\ LastThree(calls[i + 1].path) = DateSegment(calls[i + 1].date)

\* C14: whenever filepath() returns a path that directory exists on disk, and
\* a call whose target directory already existed (made by an earlier call or
\* by another process) returns its path instead of failing.
C14_DirectoryExists ==
    \A i \in 1..Len(calls) :
        /\ calls[i].existed => ~calls[i].raised
        /\ ~calls[i].raised => calls[i].path \in fs

\* the first filepath() call found its directory already made by another process
C14_Witness ==
    /\ Len(calls) >= 1
    /\ calls[1].existed
    /\ ~calls[1].raised
    /\ calls[1].path \in fs

\* C15: after every filepath() call the cache holds only the date-derived
\* part: current_date is the date of that call and current_path is exactly
\* its YYYY/MM/DD string, with no tag segment.
C15_CacheHoldsDateOnly ==
    Len(calls) > 0
    => /\ current_date = <<calls[Len(calls)].date>>
       /\ current_path = FormatDate(calls[Len(calls)].date)

\* the YYYYMMDD stamp a file name starts with
DateStamp(filename) == SubSeq(filename, 1, 8)

\* C17: the YYYYMMDD date in a FileHandler's file name is the calendar date
\* of the YYYY/MM/DD segment of its directory, also when the clock crosses a
\* day boundary while the handler is being created.
C17_FilenameDateIsDirectoryDate ==
    lastFile # <<>>
    => LET seg == LastThree(lastFile[1].directory)
       IN  DateStamp(lastFile[1].filename) = seg[1] \o seg[2] \o seg[3]

-----------------------------------------------------------------------------
(* LaserMetaData *)

\* LaserMetaData.SamplingRates, in units of 0.01 microseconds (2.55 us = 255)
SamplingRates ==
    [c \in 0..8 |-> CASE c = 0 -> 255
                      [] c = 1 -> 500
                      [] c = 2 -> 1000
                      [] c = 3 -> 2000
                      [] c = 4 -> 5000
                      [] c = 5 -> 10000
                      [] c = 6 -> 20000
                      [] c = 7 -> 50000
                      [] c = 8 -> 100000]

\* 0.01-microsecond units in one second
UnitsPerSecond == 100000000

\* LaserMetaData.OUT
OUT == <<"0","1">>

\* LaserMetaData.RawConfig, as its items() in insertion order
RawConfig ==
    << [key |-> "Tolerance",             prefix |-> <<"S","W",",","L","M",",">> \o OUT \o <<",">>],
       [key |-> "SetStorage",            prefix |-> <<"S","W",",","O","K",",">> \o OUT \o <<",">>],
       [key |-> "SurfaceToBeMeasured",   prefix |-> <<"S","W",",","O","A",",","T",",">> \o OUT \o <<",">>],
       [key |-> "Scaling",               prefix |-> <<"S","W",",","O","B",",">> \o OUT \o <<",">>],
       [key |-> "Filter",                prefix |-> <<"S","W",",","O","C",",">> \o OUT \o <<",","0",",">>],
       [key |-> "MeasurementModeSensor", prefix |-> <<"S","W",",","O","D",",">> \o OUT \o <<",">>],
       [key |-> "MeasurementModeTarget", prefix |-> <<"S","W",",","H","B",",">> \o OUT \o <<",">>],
       [key |-> "TriggerMode",           prefix |-> <<"S","W",",","O","E",",","M",",">> \o OUT \o <<",">>],
       [key |-> "Offset",                prefix |-> <<"S","W",",","O","F",",">> \o OUT \o <<",">>],
       [key |-> "MeasurementType",       prefix |-> <<"S","W",",","O","I",",">> \o OUT \o <<",">>],
       [key |-> "SamplingCycle",         prefix |-> <<"S","W",",","C","A",",">>],
       [key |-> "DataStorage",           prefix |-> <<"S","W",",","C","F",",">>] >>

RawConfigKeys == {RawConfig[p].key : p \in 1..Len(RawConfig)}

\* the one program of LaserMetaData.Programs
Program0 ==
    << <<"+","5","0","0",".","0","0","0",","," ","-","5","0","0",".","0","0","0",","," ","0","0","0","0",".","0","0","0">>,
       <<"1">>,
       <<"0">>,
       <<"+","0","0","0",".","0","0","0",","," ","+","0","0","0",".","0","0","0",","," ",
         "+","9","9","9",".","9","9","9",","," ","+","9","9","9",".","9","9","9">>,
       <<"0">>,
       <<"0">>,
       <<"0">>,
       <<"4">>,
       <<"+","0","0","0",".","0","0","0">>,
       <<"0">>,
       <<"8">>,
       <<"0","0","6","0","0","0","0",",","1">> >>

\* LaserMetaData.Programs as the repository defines it
SourcePrograms == <<Program0>>

\* further presets a catalog may hold: other field values, sampling cycle and storage
Program1 ==
    [Program0 EXCEPT ![2] = <<"2">>, ![11] = <<"0">>,
                     ![12] = <<"1","0","0","0","0","0","0",",","1">>]
Program2 ==
    [Program0 EXCEPT ![8] = <<"1">>, ![11] = <<"5">>,
                     ![12] = <<"0","0","0","5","0","0","0",",","0">>]

ProgramPool == {Program0, Program1, Program2}

\* the catalogs considered: every non-empty sequence of at most MaxPrograms presets
Catalogs == UNION {[1..n -> ProgramPool] : n \in 1..MaxPrograms}

\* the class attribute LaserMetaData.CurrentProgram
ClassCurrentProgram == 0

\* What the expression self.CurrentProgram evaluates to.  BaseData routes
\* attribute WRITES to dict.__setitem__ (__setattr__), but __getattr__ is only
\* the fallback of attribute READS: the normal lookup finds the class
\* attribute CurrentProgram first, whatever the dict entry holds.
CurrentProgram == ClassCurrentProgram

Min(a, b) == IF a < b THEN a ELSE b

\* LaserMetaData.CurrentConfig: zip(RawConfig.items(), prog) stops at the shorter
CurrentConfig(progs) ==
    LET prog == progs[CurrentProgram + 1]
        n == Min(Len(RawConfig), Len(prog))
    IN  [k \in {RawConfig[p].key : p \in 1..n} |->
            LET p == CHOOSE q \in 1..n : RawConfig[q].key = k
            IN  RawConfig[p].prefix \o prog[p]]

\* dict.update(other)
update(d, other) ==
    [k \in (DOMAIN d) \cup (DOMAIN other) |-> IF k \in DOMAIN other THEN other[k] ELSE d[k]]

s_undefined == <<"u","n","d","e","f","i","n","e","d">>

\* LaserMetaData.__init__: every field "undefined", then update(CurrentConfig)
MetaDataInit(progs) == update([k \in RawConfigKeys |-> s_undefined], CurrentConfig(progs))

\* LaserMetaData.program_index(key): 0-based position of key in RawConfig
program_index(key) == (CHOOSE p \in 1..Len(RawConfig) : RawConfig[p].key = key) - 1

\* seq[-k] of a Python list
FromEnd(seq, k) == seq[Len(seq) - k + 1]

\* dt reading the sampling-cycle code one table row too high
dt_NextRow(m) == SamplingRates[(int(FromEnd(split(m["SamplingCycle"], ","), 1)) + 1) % 9]

\* LaserMetaData.dt, in units of 0.01 microseconds
dt(m) == SamplingRates[int(FromEnd(split(m["SamplingCycle"], ","), 1))]

\* the dt property raises: ValueError from int(), or KeyError from SamplingRates[...]
dt_raises(m) ==
    LET tok == FromEnd(split(m["SamplingCycle"], ","), 1)
    IN  ~int_ok(tok) \/ int(tok) \notin DOMAIN SamplingRates

\* a caller reads the dt property
get_dt ==
    /\ dtCall' = [called |-> TRUE, field |-> meta["SamplingCycle"],
                  raised |-> dt_raises(meta),
                  value |-> IF dt_raises(meta) THEN 0 ELSE dt(meta)]
    /\ UNCHANGED <<Programs, meta, CurrentProgramItem, metaCall, pathVars, dataVars>>

\* LaserMetaData.StorageSize
StorageSize(m) == int(FromEnd(split(m["DataStorage"], ","), 2))

\* LaserMetaData.Frequency: int(1 / dt.value), dt.value in seconds
Frequency(m) == UnitsPerSecond \div dt(m)

\* floor(a * b / 10^8), computed in two halves of b to stay within 32-bit integers
ScaledProduct(a, b) == ((a * (b \div 10000)) + ((a * (b % 10000)) \div 10000)) \div 10000

\* LaserMetaData.WaitingTime: int(dt.value * StorageSize)
WaitingTime(m) == ScaledProduct(dt(m), StorageSize(m))

\* indexes a caller passes to change_program()
ProgramInputs == (-1)..MaxPrograms

\* LaserMetaData.change_program(program)
change_program(program) ==
    /\ IF program >= Len(Programs)
       THEN \* raise ValueError
            /\ metaCall' = [op |-> "change_program", arg |-> program, raised |-> TRUE,
                            pre |-> [meta |-> meta, item |-> CurrentProgramItem]]
            /\ UNCHANGED <<meta, CurrentProgramItem>>
       ELSE /\ CurrentProgramItem' = {program}
            /\ meta' = update(meta, CurrentConfig(Programs))
            /\ metaCall' = [op |-> "change_program", arg |-> program, raised |-> FALSE,
                            pre |-> [meta |-> meta, item |-> CurrentProgramItem]]
    /\ UNCHANGED <<Programs, dtCall, pathVars, dataVars>>

\* LaserMetaData() over the catalog progs
MetaInit(progs) ==
    /\ Programs = progs
    /\ meta = MetaDataInit(progs)
    /\ CurrentProgramItem = {}
    /\ metaCall = [op |-> "none", arg |-> 0, raised |-> FALSE,
                   pre |-> [meta |-> MetaDataInit(progs), item |-> {}]]
    /\ dtCall = [called |-> FALSE, field |-> <<>>, raised |-> FALSE, value |-> 0]

MetaNext == \E i \in ProgramInputs : change_program(i)

\* the repository's program with another sampling-cycle code
ProgramWithCode(c) == [Program0 EXCEPT ![11] = Digits(c)]

\* one-program catalogs over the sampling-cycle codes 0..MaxCode (the table has 0..8)
CodeCatalogs == {<<ProgramWithCode(c)>> : c \in 0..MaxCode}

\* a preset one value short (no DataStorage value) and one with a value too many
ShortProgram == SubSeq(Program0, 1, Len(Program0) - 1)
LongProgram == Program0 \o << <<"1">> >>

\* catalogs whose tuples need not match RawConfig in length
LoadCatalogs ==
    UNION {[1..n -> {Program0, Program1, ShortProgram, LongProgram}] : n \in 1..MaxPrograms}

\* LaserMetaData() over the catalog progs, with the outcome of __init__ on
\* record: __init__ has no raise of its own and zip() in CurrentConfig stops
\* at the shorter of RawConfig and the tuple, so construction completes
LoadInit(progs) ==
    /\ Programs = progs
    /\ meta = MetaDataInit(progs)
    /\ CurrentProgramItem = {}
    /\ metaCall = [op |-> "__init__", arg |-> 0, raised |-> FALSE,
                   pre |-> [meta |-> [k \in RawConfigKeys |-> s_undefined], item |-> {}]]
    /\ dtCall = [called |-> FALSE, field |-> <<>>, raised |-> FALSE, value |-> 0]

DtNext ==
    \/ get_dt
    \/ \E i \in ProgramInputs : change_program(i)

-----------------------------------------------------------------------------
(* Python floats: a finite decimal n * 10^-e (normalized: e = 0 or n not a     *)
(* multiple of 10), nan, +-inf, and +-sys.float_info.max                      *)

RECURSIVE Normalize(_, _)
Normalize(n, e) == IF e > 0 /\ n % 10 = 0 THEN Normalize(n \div 10, e - 1) ELSE [kind |-> "num", n |-> n, e |-> e]

Num(n, e) == Normalize(n, e)
NaN == [kind |-> "nan", n |-> 0, e |-> 0]
PosInf == [kind |-> "inf", n |-> 1, e |-> 0]
NegInf == [kind |-> "inf", n |-> -1, e |-> 0]
MaxFloat == [kind |-> "max", n |-> 1, e |-> 0]
MinFloat == [kind |-> "max", n |-> -1, e |-> 0]

Negate(v) == IF v.kind = "nan" THEN v ELSE [v EXCEPT !.n = 0 - v.n]

\* digits [ "." [digits] ]  |  "." digits
IsDecimal(s) ==
    /\ \A i \in 1..Len(s) : IsDigit(s[i]) \/ s[i] = "."
    /\ Cardinality({i \in 1..Len(s) : s[i] = "."}) <= 1
    /\ \E i \in 1..Len(s) : IsDigit(s[i])

DecimalValue(s) ==
    LET dots == {i \in 1..Len(s) : s[i] = "."}
        k == IF dots = {} THEN Len(s) + 1 ELSE CHOOSE i \in dots : TRUE
        whole == SubSeq(s, 1, k - 1)
        frac == SubSeq(s, k + 1, Len(s))
    IN  Num(DigitsValue(whole \o frac), Len(frac))

s_nan == <<"n","a","n">>
s_inf == <<"i","n","f">>
s_infinity == <<"i","n","f","i","n","i","t","y">>

\* the unsigned body of a float literal
BodyOk(b) == lower(b) \in {s_nan, s_inf, s_infinity} \/ IsDecimal(b)
BodyValue(b) ==
    IF lower(b) = s_nan THEN NaN
    ELSE IF lower(b) \in {s_inf, s_infinity} THEN PosInf
    ELSE DecimalValue(b)

Unsigned(t) == IF t # <<>> /\ Head(t) \in {"+", "-"} THEN Tail(t) ELSE t

\* float(s) succeeds: blanks around, an optional sign, then nan / inf /
\* infinity in any case or a decimal number (exponents and digit-group
\* underscores are not modelled)
float_ok(s) == BodyOk(Unsigned(strip(s)))

\* float(s)
float(s) ==
    LET t == strip(s)
        v == BodyValue(Unsigned(t))
    IN  IF t # <<>> /\ Head(t) = "-" THEN Negate(v) ELSE v

\* numpy.isnan on one element
isnan(v) == v.kind = "nan"

\* numpy.nan_to_num with its defaults: nan -> 0.0, +inf -> the largest
\* finite float, -inf -> the most negative finite float
nan_to_num_elem(v) ==
    IF v.kind = "nan" THEN Num(0, 0)
    ELSE IF v.kind = "inf" THEN (IF v.n > 0 THEN MaxFloat ELSE MinFloat)
    ELSE v

nan_to_num(data) == [i \in 1..Len(data) |-> nan_to_num_elem(data[i])]

-----------------------------------------------------------------------------
(* LaserData *)

\* round(n / d) to the nearest integer, ties to even, for n >= 0, d > 0
RoundHalfEven(n, d) ==
    LET q == n \div d
        r == n % d
    IN  IF 2 * r < d THEN q
        ELSE IF 2 * r > d THEN q + 1
        ELSE IF q % 2 = 0 THEN q ELSE q + 1

\* timedelta(seconds = length * dt.value), in microseconds: timedelta rounds
\* to whole microseconds
timedelta(length, dtu) == RoundHalfEven(length * dtu, 100)

\* LaserData.data_length
data_length(data) == Len(data)

\* LaserData.has_nan
has_nan(data) == \E i \in 1..Len(data) : isnan(data[i])

NoSeries == <<>>

\* insert() putting the new samples in front of the buffered ones
insert_Data_Prepend(old, data) == data \o old

\* The effect of LaserData.insert(data) on Data, EndTime and StartTime
insert_Data(old, data) == old \o data
insert_EndTime == now

\* insert() leaving StartTime as it was
insert_StartTime_Stale(newData) == StartTime

\* insert() adding the buffer's duration to EndTime instead of subtracting it
insert_StartTime_Forward(newData) == insert_EndTime + timedelta(data_length(newData), dt(meta))

insert_StartTime(newData) == insert_EndTime - timedelta(data_length(newData), dt(meta))

PreData == [Data |-> Data, StartTime |-> StartTime, EndTime |-> EndTime]

\* the series returned by the call before, when that call was timeseries()
LastSeries == IF dataCall.op = "timeseries" THEN dataCall.series ELSE NoSeries

\* whether the call before was a parse_insert() that warned
LastWarned == dataCall.op = "parse_insert" /\ dataCall.warned

\* LaserData.insert(data)
insert(data) ==
    /\ Len(Data) + Len(data) <= MaxLen
    /\ Data' = insert_Data(Data, data)
    /\ EndTime' = insert_EndTime
    /\ StartTime' = insert_StartTime(Data')
    /\ dataCall' = [op |-> "insert", frame |-> <<>>, samples |-> data, warned |-> FALSE,
                    pre |-> PreData, series |-> NoSeries, prevSeries |-> LastSeries, prevWarned |-> LastWarned]
    /\ UNCHANGED <<now, pathVars, metaVars>>

s_sentinel == <<"F","F","F","F","F","F","F">>

\* parse_insert() keeping the first (metadata) token
FrameTokens_KeepFirst(frame) == split(strip(replace(frame, s_sentinel, s_nan)), ",")

\* data.replace("FFFFFFF", "nan").strip().split(",")[1:]
FrameTokens(frame) == Tail(split(strip(replace(frame, s_sentinel, s_nan)), ","))

\* LaserData.parse_insert(data)
parse_insert(frame) ==
    LET toks == FrameTokens(frame) IN
    /\ Len(Data) + Len(toks) <= MaxLen
    /\ IF \A i \in 1..Len(toks) : float_ok(toks[i])
       THEN LET data == [i \in 1..Len(toks) |-> float(toks[i])]
            IN  /\ Data' = insert_Data(Data, data)
                /\ EndTime' = insert_EndTime
                /\ StartTime' = insert_StartTime(Data')
                /\ dataCall' = [op |-> "parse_insert", frame |-> frame, samples |-> data,
                                warned |-> FALSE, pre |-> PreData, series |-> NoSeries,
                                prevSeries |-> LastSeries, prevWarned |-> LastWarned]
       ELSE \* ValueError caught: warnings.warn(...)
            /\ dataCall' = [op |-> "parse_insert", frame |-> frame, samples |-> <<>>,
                            warned |-> TRUE, pre |-> PreData, series |-> NoSeries,
                            prevSeries |-> LastSeries, prevWarned |-> LastWarned]
            /\ UNCHANGED <<Data, StartTime, EndTime>>
    /\ UNCHANGED <<now, pathVars, metaVars>>

\* LaserData.timeseries()
timeseries ==
    /\ dataCall' = [op |-> "timeseries", frame |-> <<>>, samples |-> <<>>,
                    warned |-> has_nan(Data), pre |-> PreData,
                    series |-> << [samples |-> IF has_nan(Data) THEN nan_to_num(Data) ELSE Data,
                                   t0 |-> StartTime, dt |-> dt(meta), unit |-> "um",
                                   name |-> "LVDT Laser"] >>,
                    prevSeries |-> LastSeries, prevWarned |-> LastWarned]
    /\ UNCHANGED <<now, Data, StartTime, EndTime, pathVars, metaVars>>

\* the clock advances by one microsecond
Tick ==
    /\ now < MaxNow
    /\ now' = now + 1
    /\ UNCHANGED <<Data, StartTime, EndTime, dataCall, pathVars, metaVars>>

\* sample lists a caller passes to insert()
InsertInputs ==
    { <<>>,
      <<Num(1, 0), Num(2, 0), Num(3, 0)>>,
      <<Num(4, 0)>>,
      <<NaN, PosInf>> }

\* frames the instrument transport passes to parse_insert()
Frames ==
    { <<"m","e","t","a",",","1",".","0",",","2",".","0",",","F","F","F","F","F","F","F",",","3",".","0">>,
      <<"m","e","t","a",",","1",".","0",",","o","o","p","s",",","3",".","0">>,
      <<"m","e","t","a",",","1",".","0",",">>,
      <<"F","F","F","F","F","F","F",",","2",".","5","\n">>,
      <<"m","e","t","a",",","1",".","0",",","-","F","F","F","F","F","F","F">>,
      <<"m","e","t","a",",","x","F","F","F","F","F","F","F">>,
      <<"m","e","t","a",",","n","a","n">>,
      <<"m",",","-","2",".","5",",","F","F","F","F","F","F","F">>,
      <<"o","o","p","s">> }

\* LaserData.__init__: Data = [], MetaData = LaserMetaData(), then two reads
\* of the clock, which may advance between them
DataInit ==
    /\ Data = <<>>
    /\ StartTime = 0
    /\ now \in 0..1
    /\ EndTime = now
    /\ dataCall = [op |-> "init", frame |-> <<>>, samples |-> <<>>, warned |-> FALSE,
                   pre |-> [Data |-> <<>>, StartTime |-> 0, EndTime |-> 0],
                   series |-> NoSeries, prevSeries |-> NoSeries, prevWarned |-> FALSE]

DataNext ==
    \/ \E d \in InsertInputs : insert(d)
    \/ \E f \in Frames : parse_insert(f)
    \/ timeseries
    \/ Tick

-----------------------------------------------------------------------------
(* Specifications *)

\* a FileManager in use
PathSpecInit == PathInit /\ MetaInit(SourcePrograms) /\ DataInit /\ now = 0
SpecPath == PathSpecInit /\ [][PathNext]_vars

\* FileHandlers created over the shared FileManager
SpecFile == PathSpecInit /\ [][FileNext]_vars

\* a LaserMetaData over any catalog
MetaSpecInit == PathInit /\ (\E c \in Catalogs : MetaInit(c)) /\ DataInit /\ now = 0
SpecMeta == MetaSpecInit /\ [][MetaNext]_vars

\* a LaserMetaData whose dt property is read, over catalogs of every sampling-cycle code
DtSpecInit == PathInit /\ (\E c \in CodeCatalogs : MetaInit(c)) /\ DataInit /\ now = 0
SpecDt == DtSpecInit /\ [][DtNext]_vars

\* a LaserMetaData constructed over catalogs with tuples of any length
LoadSpecInit == PathInit /\ (\E c \in LoadCatalogs : LoadInit(c)) /\ DataInit /\ now = 0
SpecLoad == LoadSpecInit /\ [][MetaNext]_vars

\* a LaserData (its MetaData is a LaserMetaData over the repository's catalog)
DataSpecInit == PathInit /\ MetaInit(SourcePrograms) /\ DataInit
SpecData == DataSpecInit /\ [][DataNext]_vars

Init == PathInit /\ MetaInit(SourcePrograms) /\ DataInit
Next == PathNext \/ FileNext \/ MetaNext \/ get_dt \/ DataNext
Spec == Init /\ [][Next]_vars

-----------------------------------------------------------------------------
(* Properties of LaserMetaData.change_program *)

\* the resolved config of one catalog entry: key -> prefix + value, by position
ExpectedConfig(prog) ==
    [k \in RawConfigKeys |->
        LET p == program_index(k) + 1 IN RawConfig[p].prefix \o prog[p]]

ValidIndex(i) == 0 <= i /\ i < Len(Programs)

\* C2: after change_program(i) with 0 <= i < len(Programs) the config has
\* exactly the RawConfig keys, each value prefix + Programs[i][position], and
\* dt, Frequency, StorageSize, WaitingTime are those of entry i.
C2_SelectProgramResolvesEntry ==
    (metaCall.op = "change_program" /\ ValidIndex(metaCall.arg))
    => LET want == ExpectedConfig(Programs[metaCall.arg + 1])
       IN  /\ ~metaCall.raised
           /\ DOMAIN meta = RawConfigKeys
           /\ meta = want
           /\ dt(meta) = dt(want)
           /\ Frequency(meta) = Frequency(want)
           /\ StorageSize(meta) = StorageSize(want)
           /\ WaitingTime(meta) = WaitingTime(want)

\* C3: change_program(i) with i outside [0, len(Programs)) signals an error
\* and leaves the active index, the config and the derived scalars as before.
C3_OutOfRangeRejected ==
    (metaCall.op = "change_program" /\ ~ValidIndex(metaCall.arg))
    => /\ metaCall.raised
       /\ CurrentProgramItem = metaCall.pre.item
       /\ meta = metaCall.pre.meta
       /\ dt(meta) = dt(metaCall.pre.meta)
       /\ StorageSize(meta) = StorageSize(metaCall.pre.meta)

\* the sampling-cycle code of a resolved SamplingCycle field: what follows its last comma
CodeToken(field) == FromEnd(split(field, ","), 1)

\* C11: dt is strictly positive and equals SamplingRates[code] for every code
\* in the table (0..8); for a code absent from the table reading dt raises an
\* error instead of returning a value.
C11_DtFromTable ==
    dtCall.called
    => LET tok == CodeToken(dtCall.field)
       IN  IF int_ok(tok) /\ int(tok) \in 0..8
           THEN ~dtCall.raised /\ dtCall.value > 0 /\ dtCall.value = SamplingRates[int(tok)]
           ELSE dtCall.raised

\* dt was read on a config whose sampling-cycle code, 9, is absent from the table
C11_Witness ==
    /\ dtCall.called
    /\ CodeToken(dtCall.field) = <<"9">>
    /\ dtCall.raised

\* some tuple of the catalog has not exactly one value per RawConfig field
MismatchedCatalog(progs) == \E i \in 1..Len(progs) : Len(progs[i]) # Len(RawConfig)

\* C12: a catalog with a tuple whose length differs from the number of
\* RawConfig fields is rejected with an error when the LaserMetaData is
\* constructed; it is never accepted with a truncated config.
C12_MismatchRejectedAtLoad ==
    MismatchedCatalog(Programs) => (metaCall.op = "__init__" /\ metaCall.raised)

-----------------------------------------------------------------------------
(* Properties of LaserData *)

\* C4: in every reachable state StartTime = EndTime - len(Data) * dt
\* (times in microseconds, dt in 0.01 microseconds).
C4_StartTimeInvariant ==
    100 * (EndTime - StartTime) = Len(Data) * dt(meta)

\* the tokens of a frame after its first (metadata) token
SampleTokens(frame) == Tail(split(strip(frame), ","))

\* a token that is a decimal number, with an optional sign
IsNumericToken(t) == IsDecimal(Unsigned(t))
NumericValue(t) ==
    IF Head(t) = "-" THEN Negate(DecimalValue(Unsigned(t))) ELSE DecimalValue(Unsigned(t))

IsValidToken(t) == t = s_sentinel \/ IsNumericToken(t)

ValidFrame(frame) == \A i \in 1..Len(SampleTokens(frame)) : IsValidToken(SampleTokens(frame)[i])

\* the samples a valid frame stands for
ExpectedSamples(frame) ==
    LET toks == SampleTokens(frame)
    IN  [i \in 1..Len(toks) |-> IF toks[i] = s_sentinel THEN NaN ELSE NumericValue(toks[i])]

Untouched == Data = dataCall.pre.Data /\ StartTime = dataCall.pre.StartTime /\ EndTime = dataCall.pre.EndTime

\* C5: a frame with a token after the first that is neither the sentinel nor
\* numeric is rejected whole with a warning: buffer, StartTime and EndTime are
\* as before the call; and a valid frame right after a rejected one is
\* ingested normally.
C5_BadFrameRejectedWhole ==
    /\ (dataCall.op = "parse_insert" /\ ~ValidFrame(dataCall.frame))
       => (dataCall.warned /\ Untouched)
    /\ (dataCall.op = "parse_insert" /\ ValidFrame(dataCall.frame) /\ dataCall.prevWarned)
       => (~dataCall.warned /\ Data = dataCall.pre.Data \o ExpectedSamples(dataCall.frame))

IsPrefix(a, b) == Len(a) <= Len(b) /\ SubSeq(b, 1, Len(a)) = a

\* C8: the buffer is append-only and order-preserving: after insert(s) the
\* buffer is the buffer before followed by s, and no step removes or reorders
\* a buffered sample.
C8_AppendOnly ==
    /\ [](dataCall.op = "insert" => Data = dataCall.pre.Data \o dataCall.samples)
    /\ [][IsPrefix(Data, Data')]_vars

\* insert([a,b,c]) then insert([d]) gave [a,b,c,d]
C8_Witness ==
    /\ dataCall.op = "insert"
    /\ dataCall.samples = <<Num(4, 0)>>
    /\ dataCall.pre.Data = <<Num(1, 0), Num(2, 0), Num(3, 0)>>
    /\ Data = <<Num(1, 0), Num(2, 0), Num(3, 0), Num(4, 0)>>

\* C9: a frame whose tokens after the first are all numeric or the sentinel
\* is ingested without warning: the first token is discarded and one sample
\* per remaining token is appended in order, NaN exactly at the sentinels.
C9_ValidFrameIngested ==
    (dataCall.op = "parse_insert" /\ ValidFrame(dataCall.frame))
    => /\ ~dataCall.warned
       /\ Data = dataCall.pre.Data \o ExpectedSamples(dataCall.frame)
       /\ \A i \in 1..Len(dataCall.samples) :
            isnan(dataCall.samples[i]) <=> SampleTokens(dataCall.frame)[i] = s_sentinel

\* "meta,1.0,2.0,FFFFFFF,3.0" on an empty buffer gave [1.0, 2.0, NaN, 3.0]
C9_Witness ==
    /\ dataCall.op = "parse_insert"
    /\ dataCall.frame = <<"m","e","t","a",",","1",".","0",",","2",".","0",",",
                          "F","F","F","F","F","F","F",",","3",".","0">>
    /\ dataCall.pre.Data = <<>>
    /\ ~dataCall.warned
    /\ Data = <<Num(1, 0), Num(2, 0), NaN, Num(3, 0)>>

\* the buffer with zero at exactly the missing positions
ZeroAtMissing(data) == [i \in 1..Len(data) |-> IF isnan(data[i]) THEN Num(0, 0) ELSE data[i]]

\* C10: timeseries() leaves buffer, StartTime, EndTime and config unchanged,
\* two consecutive calls return equal series, and the returned samples are
\* the buffer with zero at exactly the missing positions (with a warning),
\* or the buffer itself and no warning when nothing is missing.
C10_TimeseriesPure ==
    (dataCall.op = "timeseries")
    => /\ Untouched
       /\ meta = MetaDataInit(Programs)
       /\ (dataCall.prevSeries # NoSeries => dataCall.series = dataCall.prevSeries)
       /\ dataCall.warned = has_nan(Data)
       /\ dataCall.series[1].samples = ZeroAtMissing(Data)

\* C13: insert([]) on a dataset with an empty buffer leaves the buffer empty
\* and StartTime = EndTime.
C13_EmptyInsert ==
    (dataCall.op = "insert" /\ dataCall.samples = <<>> /\ dataCall.pre.Data = <<>>)
    => (Data = <<>> /\ StartTime = EndTime)

\* insert([]) on a fresh dataset whose two timestamps differed
C13_Witness ==
    /\ dataCall.op = "insert"
    /\ dataCall.samples = <<>>
    /\ dataCall.pre.Data = <<>>
    /\ dataCall.pre.StartTime < dataCall.pre.EndTime
    /\ Data = <<>>
    /\ StartTime = EndTime

\* C18: with a non-decreasing clock, StartTime <= EndTime in every state and
\* EndTime never decreases from one step to the next.
C18_TimeWindowOrdered ==
    /\ [](StartTime <= EndTime)
    /\ [][EndTime' >= EndTime]_vars

\* an insert after the clock advanced: EndTime moved forward, StartTime lies before it
C18_Witness ==
    /\ dataCall.op \in {"insert", "parse_insert"}
    /\ Len(Data) > 0
    /\ EndTime > dataCall.pre.EndTime
    /\ StartTime < EndTime

\* C16: parse_insert maps a token to NaN only when the token is exactly the
\* sentinel: a frame with any other non-numeric token after the first is
\* rejected whole, a frame is accepted exactly when all its tokens after the
\* first are numeric or the sentinel (whatever the first token holds), and
\* every NaN of an accepted frame stands at a sentinel.
C16_NaNOnlyForSentinel ==
    (dataCall.op = "parse_insert")
    => /\ dataCall.warned <=> ~ValidFrame(dataCall.frame)
       /\ dataCall.warned => Untouched
       /\ ~dataCall.warned =>
            \A i \in 1..Len(dataCall.samples) :
                isnan(dataCall.samples[i]) => SampleTokens(dataCall.frame)[i] = s_sentinel

=============================================================================
